---- MODULE Spec2Model ----
(***************************************************************************)
(* A model of the cost analyzer: the classification rules and the savings  *)
(* estimate of app/analysis.py, and the two report paths of                *)
(* app/ai_service.py as the /api/v1/generate-report handler of app/main.py *)
(* drives them.                                                            *)
(*                                                                         *)
(* Representation.  Money is counted in whole dollars; a savings rate r is *)
(* kept as the integer r * RateScale, so a savings figure is in units of   *)
(* 1/RateScale dollar and all arithmetic is exact (the floats' rounding is *)
(* not modelled).  A string is a sequence of one-character strings.  A     *)
(* call that can raise returns [raised, val].  A line of the narrative is  *)
(* a sequence of tokens, [s, n]: a word, a marker or a blank, with n the   *)
(* number an item carries.                                                 *)
(***************************************************************************)
EXTENDS Integers, Sequences, FiniteSets, TLC

VARIABLES
    records,            \* the argument of the classification / analysis call
    avg_cost,           \* the avg_cost argument of is_high_cost_anomaly
    flags,              \* what the three classifier calls returned
    summary_out,        \* what analyze_records returned
    cost_records_store, \* main.py: the in-memory record store
    use_mock_env,       \* main.py: ai_service.use_mock, fixed at import
    pc,                 \* where the generate-report request stands
    analysis_summary,   \* the handler's analysis_summary
    current_section,    \* _parse_ai_response locals ...
    summary,
    findings,
    recommendations,
    priority_actions,
    saw_bullet,         \* some scanned line was a bullet line once stripped
    response            \* the response to the request

analysisVars == <<records, avg_cost, flags, summary_out>>
parserVars == <<current_section, summary, findings, recommendations,
                priority_actions, saw_bullet>>
reportVars == <<cost_records_store, use_mock_env, pc, analysis_summary, response>>
vars == <<analysisVars, parserVars, reportVars>>

----------------------------------------------------------------------------
(* Bounds *)

MaxRecords == 3
MaxItems == 12

----------------------------------------------------------------------------
(* app/analysis.py: the policy constants *)

UNDERUTILIZED_CPU_THRESHOLD == 20
UNDERUTILIZED_MEM_THRESHOLD == 20
IDLE_CPU_THRESHOLD == 5
IDLE_MEM_THRESHOLD == 5
HIGH_COST_MULTIPLIER == 2
RateScale == 10
SAVINGS_ESTIMATE_UNDERUTILIZED == 3
SAVINGS_ESTIMATE_IDLE == 8
SAVINGS_ESTIMATE_ANOMALY == 2
DaysPerMonth == 30

ResourceStatus == {"active", "idle", "stopped", "terminated"}

----------------------------------------------------------------------------
(* Python values and calls *)

Ok(v) == [raised |-> FALSE, val |-> v]
RaiseNum == [raised |-> TRUE, val |-> 0]
RaiseBool == [raised |-> TRUE, val |-> FALSE]

Str(s) == [type |-> "str", chars |-> s, num |-> 0]
Float(n) == [type |-> "float", chars |-> <<>>, num |-> n]

Digits == {"0", "1", "2", "3", "4", "5", "6", "7", "8", "9"}

DigitValue(c) ==
    CASE c = "0" -> 0 [] c = "1" -> 1 [] c = "2" -> 2 [] c = "3" -> 3
      [] c = "4" -> 4 [] c = "5" -> 5 [] c = "6" -> 6 [] c = "7" -> 7
      [] c = "8" -> 8 [] c = "9" -> 9

RECURSIVE DecimalValue(_)
DecimalValue(s) ==
    IF s = <<>> THEN 0
    ELSE 10 * DecimalValue(SubSeq(s, 1, Len(s) - 1)) + DigitValue(s[Len(s)])

(* float(s) on the strings of the model's alphabet (digits, "%", letters):  *)
(* a non-empty string of digits is its value, anything else raises.         *)
float(s) ==
    IF s # <<>> /\ \A i \in DOMAIN s : s[i] \in Digits
    THEN Ok(DecimalValue(s))
    ELSE RaiseNum

(* s.replace(c, ''): every occurrence goes, wherever it stands. *)
replace(s, c) == SelectSeq(s, LAMBDA x : x # c)

parse_usage_percentage(usage_str) ==
    IF usage_str.type = "str"
    THEN float(replace(usage_str.chars, "%"))
    ELSE Ok(usage_str.num)

----------------------------------------------------------------------------
(* app/analysis.py: the classifier *)

(* Mutant: the thresholds taken as inclusive *)
is_underutilized_inclusive(record) ==
    LET cpu == parse_usage_percentage(record.usage_cpu_avg)
        mem == parse_usage_percentage(record.usage_mem_avg)
    IN  IF cpu.raised \/ mem.raised THEN RaiseBool
        ELSE Ok(/\ record.status = "active"
                /\ cpu.val <= UNDERUTILIZED_CPU_THRESHOLD
                /\ mem.val <= UNDERUTILIZED_MEM_THRESHOLD)

(* Mutant: the status tested before the usages are parsed *)
is_underutilized_lazy(record) ==
    IF record.status # "active" THEN Ok(FALSE)
    ELSE LET cpu == parse_usage_percentage(record.usage_cpu_avg)
             mem == parse_usage_percentage(record.usage_mem_avg)
         IN  IF cpu.raised \/ mem.raised THEN RaiseBool
             ELSE Ok(/\ cpu.val < UNDERUTILIZED_CPU_THRESHOLD
                     /\ mem.val < UNDERUTILIZED_MEM_THRESHOLD)

is_underutilized(record) ==
    LET cpu == parse_usage_percentage(record.usage_cpu_avg)
        mem == parse_usage_percentage(record.usage_mem_avg)
    IN  IF cpu.raised \/ mem.raised THEN RaiseBool
        ELSE Ok(/\ record.status = "active"
                /\ cpu.val < UNDERUTILIZED_CPU_THRESHOLD
                /\ mem.val < UNDERUTILIZED_MEM_THRESHOLD)

(* Mutant: either usage below its threshold is enough *)
is_idle_either(record) ==
    IF record.status = "idle" THEN Ok(TRUE)
    ELSE LET cpu == parse_usage_percentage(record.usage_cpu_avg)
             mem == parse_usage_percentage(record.usage_mem_avg)
         IN  IF cpu.raised \/ mem.raised THEN RaiseBool
             ELSE Ok(\/ cpu.val < IDLE_CPU_THRESHOLD
                     \/ mem.val < IDLE_MEM_THRESHOLD)

is_idle(record) ==
    IF record.status = "idle" THEN Ok(TRUE)
    ELSE LET cpu == parse_usage_percentage(record.usage_cpu_avg)
             mem == parse_usage_percentage(record.usage_mem_avg)
         IN  IF cpu.raised \/ mem.raised THEN RaiseBool
             ELSE Ok(/\ cpu.val < IDLE_CPU_THRESHOLD
                     /\ mem.val < IDLE_MEM_THRESHOLD)

(* A float average is the exact rational num/den; x > avg * m is decided    *)
(* by cross-multiplication.                                                 *)
Rational(n, d) == [num |-> n, den |-> d]
GreaterThanProduct(x, q, m) == x * q.den > q.num * m

(* Mutant: twice the average counts as an anomaly *)
is_high_cost_anomaly_inclusive(record, avg) ==
    record.daily_cost * avg.den >= avg.num * HIGH_COST_MULTIPLIER

is_high_cost_anomaly(record, avg) ==
    GreaterThanProduct(record.daily_cost, avg, HIGH_COST_MULTIPLIER)

----------------------------------------------------------------------------
(* app/models.py: the records *)

(* A daily cost is a float: the model writes it as a whole number of units, *)
(* the unit being the dollar or, for the costs next to zero, the least      *)
(* positive double, 2^-1074.  A cohort of the model is in one unit.         *)

(* A record whose cost is a whole number of least positive doubles *)
SubnormalCostRecord(service, status, cpu, mem, cost) ==
    [service |-> service, status |-> status, daily_cost |-> cost,
     cost_unit |-> "2^-1074 USD",
     usage_cpu_avg |-> cpu, usage_mem_avg |-> mem]

CostRecord(service, status, cpu, mem, cost) ==
    [service |-> service, status |-> status, daily_cost |-> cost,
     cost_unit |-> "USD",
     usage_cpu_avg |-> cpu, usage_mem_avg |-> mem]

from_cost_record(record, underutilized, idle, anomaly) ==
    [service |-> record.service,
     status |-> record.status,
     daily_cost |-> record.daily_cost,
     cost_unit |-> record.cost_unit,
     usage_cpu_avg |-> record.usage_cpu_avg,
     usage_mem_avg |-> record.usage_mem_avg,
     usage_cpu_avg_float |-> parse_usage_percentage(record.usage_cpu_avg).val,
     usage_mem_avg_float |-> parse_usage_percentage(record.usage_mem_avg).val,
     monthly_cost_estimate |-> record.daily_cost * DaysPerMonth,
     is_underutilized |-> underutilized,
     is_idle |-> idle,
     is_high_cost_anomaly |-> anomaly]

(* Mutant: the idle and underutilized counts taken from each other's list *)
AnalysisSummary_swapped(raised, n, daily, savings, underutilized, idle, anomalies) ==
    [raised |-> raised,
     total_records |-> n,
     total_daily_cost |-> daily,
     total_monthly_cost_estimate |-> daily * DaysPerMonth,
     underutilized_count |-> Len(idle),
     idle_count |-> Len(underutilized),
     high_cost_anomaly_count |-> Len(anomalies),
     potential_monthly_savings |-> savings,
     underutilized_resources |-> underutilized,
     idle_resources |-> idle,
     high_cost_anomalies |-> anomalies]

AnalysisSummary(raised, n, daily, savings, underutilized, idle, anomalies) ==
    [raised |-> raised,
     total_records |-> n,
     total_daily_cost |-> daily,
     total_monthly_cost_estimate |-> daily * DaysPerMonth,
     underutilized_count |-> Len(underutilized),
     idle_count |-> Len(idle),
     high_cost_anomaly_count |-> Len(anomalies),
     potential_monthly_savings |-> savings,
     underutilized_resources |-> underutilized,
     idle_resources |-> idle,
     high_cost_anomalies |-> anomalies]

(* The call raised: there is no summary. *)
RaisedSummary == AnalysisSummary(TRUE, 0, 0, 0, <<>>, <<>>, <<>>)

----------------------------------------------------------------------------
(* app/analysis.py: analyze_records *)

RECURSIVE SumDailyCost(_)
SumDailyCost(rs) ==
    IF rs = <<>> THEN 0 ELSE rs[1].daily_cost + SumDailyCost(Tail(rs))

(* The three savings loops: what one resource of each list adds. *)
(* Mutant: the underutilized loop without its idle guard *)
UnderutilizedCredit_unguarded(resource) ==
    resource.monthly_cost_estimate * SAVINGS_ESTIMATE_UNDERUTILIZED

UnderutilizedCredit(resource) ==
    IF ~resource.is_idle
    THEN resource.monthly_cost_estimate * SAVINGS_ESTIMATE_UNDERUTILIZED
    ELSE 0

(* Mutant: the idle loop skipping what the underutilized loop has listed *)
IdleCredit_guarded(resource) ==
    IF ~resource.is_underutilized
    THEN resource.monthly_cost_estimate * SAVINGS_ESTIMATE_IDLE
    ELSE 0

IdleCredit(resource) ==
    resource.monthly_cost_estimate * SAVINGS_ESTIMATE_IDLE

AnomalyCredit(resource) ==
    IF ~resource.is_idle /\ ~resource.is_underutilized
    THEN resource.monthly_cost_estimate * SAVINGS_ESTIMATE_ANOMALY
    ELSE 0

RECURSIVE SumUnderutilized(_)
SumUnderutilized(rs) ==
    IF rs = <<>> THEN 0
    ELSE UnderutilizedCredit(rs[1]) + SumUnderutilized(Tail(rs))

RECURSIVE SumIdle(_)
SumIdle(rs) ==
    IF rs = <<>> THEN 0 ELSE IdleCredit(rs[1]) + SumIdle(Tail(rs))

RECURSIVE SumAnomalies(_)
SumAnomalies(rs) ==
    IF rs = <<>> THEN 0 ELSE AnomalyCredit(rs[1]) + SumAnomalies(Tail(rs))

(* The unit the costs of a cohort are written in. *)
CohortUnit(rs) == IF rs = <<>> THEN "USD" ELSE rs[1].cost_unit

(* A float quotient is the exact quotient rounded to the nearest double,    *)
(* ties to the even one.  Between the least positive doubles the doubles    *)
(* are the whole numbers of units.                                          *)
RoundHalfEven(total, n) ==
    LET q == total \div n
        r == total % n
    IN  IF 2 * r < n THEN q
        ELSE IF 2 * r > n THEN q + 1
        ELSE IF q % 2 = 0 THEN q ELSE q + 1

(* The division of line 97: Python raises ZeroDivisionError on a zero       *)
(* length.  For whole dollars the comparisons made with the quotient come   *)
(* out as with the exact one, which is kept as a rational; for the least    *)
(* positive doubles the quotient is rounded as the division rounds it.      *)
Average(total, n, unit) ==
    [raised |-> n = 0,
     val |-> IF n = 0 THEN Rational(total, 1)
             ELSE IF unit = "USD" THEN Rational(total, n)
             ELSE Rational(RoundHalfEven(total, n), 1)]

(* Mutant: one if/elif chain, a record lands in the first list that matches *)
Flagged_elif(responses, flag) ==
    SelectSeq(responses,
              LAMBDA r : /\ r[flag]
                         /\ \/ flag = "is_underutilized"
                            \/ /\ ~r.is_underutilized
                               /\ flag = "is_idle" \/ ~r.is_idle)

(* The three independent ifs of the loop: the responses appended to one     *)
(* list, in the order of the loop.                                           *)
Flagged(responses, flag) == SelectSeq(responses, LAMBDA r : r[flag])

(* Lines 95-151: the cohort is averaged, classified, bucketed and credited. *)
AnalyzeCohort(rs) ==
    LET total_daily_cost == SumDailyCost(rs)
        avg == Average(total_daily_cost, Len(rs), CohortUnit(rs))
    IN  IF \/ avg.raised
           \/ \E i \in DOMAIN rs :
                 is_underutilized(rs[i]).raised \/ is_idle(rs[i]).raised
        THEN RaisedSummary
        ELSE
        LET responses == [i \in DOMAIN rs |->
                from_cost_record(rs[i],
                                 is_underutilized(rs[i]).val,
                                 is_idle(rs[i]).val,
                                 is_high_cost_anomaly(rs[i], avg.val))]
            underutilized == Flagged(responses, "is_underutilized")
            idle == Flagged(responses, "is_idle")
            anomalies == Flagged(responses, "is_high_cost_anomaly")
            potential_savings == SumUnderutilized(underutilized)
                                 + SumIdle(idle)
                                 + SumAnomalies(anomalies)
        IN  AnalysisSummary(FALSE, Len(rs), total_daily_cost, potential_savings,
                            underutilized, idle, anomalies)

(* Mutant: no early return for the empty cohort *)
analyze_records_unguarded(rs) == AnalyzeCohort(rs)

analyze_records(rs) ==
    IF rs = <<>> THEN AnalysisSummary(FALSE, 0, 0, 0, <<>>, <<>>, <<>>)
    ELSE AnalyzeCohort(rs)

----------------------------------------------------------------------------
(* Report texts.  An f-string is its fixed text with the numbers and names  *)
(* it interpolates; a text taken from the narrative is its tokens.          *)

Text(t, nums, names) == [text |-> t, nums |-> nums, names |-> names, tokens |-> <<>>]
Literal(toks) == [text |-> "", nums |-> <<>>, names |-> <<>>, tokens |-> toks]
EmptyStr == Literal(<<>>)

CostSavingsReport(s, f, r, savings, p, a) ==
    [summary |-> s, findings |-> f, recommendations |-> r,
     estimated_savings |-> savings, priority_actions |-> p,
     analysis_summary |-> a]

(* Mutant: the last n items instead of the first *)
Slice_tail(seq, n) ==
    SubSeq(seq, IF Len(seq) < n THEN 1 ELSE Len(seq) - n + 1, Len(seq))

(* seq[:n] *)
Slice(seq, n) == SubSeq(seq, 1, IF Len(seq) < n THEN Len(seq) ELSE n)

(* Mutant: the list as it is, empty or not *)
ListOr_left(x, y) == x

(* x or y, on a list and on a string *)
ListOr(x, y) == IF x # <<>> THEN x ELSE y
StrOr(x, y) == IF x # EmptyStr THEN x ELSE y

----------------------------------------------------------------------------
(* app/ai_service.py: _generate_mock_report *)

MOCK_IDLE_RATE == 8
MOCK_IDLE_NAMES == 3

RECURSIVE MockIdleSavings(_)
MockIdleSavings(rs) ==
    IF rs = <<>> THEN 0
    ELSE rs[1].monthly_cost_estimate * MOCK_IDLE_RATE + MockIdleSavings(Tail(rs))

MockFindings(a) ==
    (IF a.idle_count > 0
     THEN <<Text("Found idle resources that can be stopped or terminated",
                 <<a.idle_count, MockIdleSavings(a.idle_resources)>>, <<>>)>>
     ELSE <<>>)
    \o (IF a.underutilized_count > 0
        THEN <<Text("Identified underutilized resources that can be downsized",
                    <<a.underutilized_count>>, <<>>)>>
        ELSE <<>>)
    \o (IF a.high_cost_anomaly_count > 0
        THEN <<Text("Detected high-cost anomalies requiring optimization review",
                    <<a.high_cost_anomaly_count>>, <<>>)>>
        ELSE <<>>)

(* Mutant: the last standing recommendation forgotten *)
MockRecommendations_short(a) ==
    (IF a.idle_resources # <<>>
     THEN <<Text("Immediately stop or terminate idle resources, especially",
                 <<>>,
                 [i \in 1..Len(Slice(a.idle_resources, MOCK_IDLE_NAMES)) |->
                      a.idle_resources[i].service])>>
     ELSE <<>>)
    \o (IF a.underutilized_resources # <<>>
        THEN <<Text("Downsize underutilized resources to smaller instance types",
                    <<>>, <<>>)>>
        ELSE <<>>)
    \o (IF a.high_cost_anomalies # <<>>
        THEN <<Text("Review high-cost resources for optimization opportunities",
                    <<>>, <<>>)>>
        ELSE <<>>)
    \o <<Text("Implement automated resource scheduling for non-production environments",
              <<>>, <<>>)>>

(* Mutant: the standing recommendations put first *)
MockRecommendations_standing_first(a) ==
    <<Text("Implement automated resource scheduling for non-production environments",
           <<>>, <<>>),
      Text("Set up cost alerts and budgets to prevent future cost anomalies",
           <<>>, <<>>)>>
    \o (IF a.idle_resources # <<>>
        THEN <<Text("Immediately stop or terminate idle resources, especially",
                    <<>>,
                    [i \in 1..Len(Slice(a.idle_resources, MOCK_IDLE_NAMES)) |->
                         a.idle_resources[i].service])>>
        ELSE <<>>)
    \o (IF a.underutilized_resources # <<>>
        THEN <<Text("Downsize underutilized resources to smaller instance types",
                    <<>>, <<>>)>>
        ELSE <<>>)
    \o (IF a.high_cost_anomalies # <<>>
        THEN <<Text("Review high-cost resources for optimization opportunities",
                    <<>>, <<>>)>>
        ELSE <<>>)

MockRecommendations(a) ==
    (IF a.idle_resources # <<>>
     THEN <<Text("Immediately stop or terminate idle resources, especially",
                 <<>>,
                 [i \in 1..Len(Slice(a.idle_resources, MOCK_IDLE_NAMES)) |->
                      a.idle_resources[i].service])>>
     ELSE <<>>)
    \o (IF a.underutilized_resources # <<>>
        THEN <<Text("Downsize underutilized resources to smaller instance types",
                    <<>>, <<>>)>>
        ELSE <<>>)
    \o (IF a.high_cost_anomalies # <<>>
        THEN <<Text("Review high-cost resources for optimization opportunities",
                    <<>>, <<>>)>>
        ELSE <<>>)
    \o <<Text("Implement automated resource scheduling for non-production environments",
              <<>>, <<>>)>>
    \o <<Text("Set up cost alerts and budgets to prevent future cost anomalies",
              <<>>, <<>>)>>

(* Mutant: the anomaly action appended whether or not there is an anomaly *)
MockPriorityActions_always(a) ==
    (IF a.idle_resources # <<>>
     THEN <<Text("Terminate idle resources",
                 <<Len(a.idle_resources), MockIdleSavings(a.idle_resources)>>, <<>>)>>
     ELSE <<>>)
    \o (IF a.underutilized_resources # <<>>
        THEN <<Text("Right-size underutilized resources",
                    <<Len(a.underutilized_resources)>>, <<>>)>>
        ELSE <<>>)
    \o <<Text("Review and optimize high-cost resources",
              <<Len(a.high_cost_anomalies)>>, <<>>)>>

MockPriorityActions(a) ==
    (IF a.idle_resources # <<>>
     THEN <<Text("Terminate idle resources",
                 <<Len(a.idle_resources), MockIdleSavings(a.idle_resources)>>, <<>>)>>
     ELSE <<>>)
    \o (IF a.underutilized_resources # <<>>
        THEN <<Text("Right-size underutilized resources",
                    <<Len(a.underutilized_resources)>>, <<>>)>>
        ELSE <<>>)
    \o (IF a.high_cost_anomalies # <<>>
        THEN <<Text("Review and optimize high-cost resources",
                    <<Len(a.high_cost_anomalies)>>, <<>>)>>
        ELSE <<>>)

_generate_mock_report(a) ==
    CostSavingsReport(
        Text("Analysis of cloud resources reveals significant cost optimization opportunities",
             <<a.total_records, a.total_monthly_cost_estimate,
               a.potential_monthly_savings>>, <<>>),
        MockFindings(a),
        MockRecommendations(a),
        a.potential_monthly_savings,
        MockPriorityActions(a),
        a)

----------------------------------------------------------------------------
(* The narrative's lines.  A token is a word, a marker or a blank; the      *)
(* string methods act on tokens as they act on the characters.              *)

Word(w) == [s |-> w, n |-> 0]
ItemWord(k) == [s |-> "item", n |-> k]
Blank == Word(" ")

(* str.lower(), word by word *)
lower(w) ==
    CASE w = "Executive" -> "executive"
      [] w = "Summary" -> "summary"
      [] w = "SUMMARY" -> "summary"
      [] w = "Key" -> "key"
      [] w = "Findings" -> "findings"
      [] w = "Recommendations" -> "recommendations"
      [] w = "Priority" -> "priority"
      [] w = "Actions" -> "actions"
      [] w = "Transactions" -> "transactions"
      [] OTHER -> w

(* kw in word, for a lower-case word: the substrings that matter *)
Substrings(w) ==
    CASE w = "executive" -> {"executive"}
      [] w = "summary" -> {"summary"}
      [] w = "findings" -> {"finding"}
      [] w = "recommendations" -> {"recommendation"}
      [] w = "priority" -> {"priority"}
      [] w = "actions" -> {"action"}
      [] w = "transactions" -> {"action"}
      [] OTHER -> {}

(* kw in line.lower() *)
InLower(kw, l) == \E i \in DOMAIN l : kw \in Substrings(lower(l[i].s))

RECURSIVE lstrip(_, _)
lstrip(l, chars) ==
    IF l # <<>> /\ l[1].s \in chars THEN lstrip(Tail(l), chars) ELSE l

RECURSIVE rstrip(_, _)
rstrip(l, chars) ==
    IF l # <<>> /\ l[Len(l)].s \in chars
    THEN rstrip(SubSeq(l, 1, Len(l) - 1), chars)
    ELSE l

strip(l) == rstrip(lstrip(l, {" "}), {" "})

startswith(l, c) == l # <<>> /\ l[1].s = c

(* "U+2022" stands for the bullet character, which a TLA+ string cannot hold *)
BulletMarkers == {"-", "U+2022", "*"}

IsBullet(l) == \E c \in BulletMarkers : startswith(l, c)

IsHeader(l) ==
    \E kw \in {"summary", "executive", "finding", "recommendation",
               "priority", "action"} : InLower(kw, l)

----------------------------------------------------------------------------
(* app/ai_service.py: _parse_ai_response *)

MAX_FINDINGS == 10
MAX_RECOMMENDATIONS == 10
MAX_PRIORITY_ACTIONS == 5

ParserLocals(section, s, f, r, p) ==
    [current_section |-> section, summary |-> s, findings |-> f,
     recommendations |-> r, priority_actions |-> p]

(* Mutant: an item with no list of its own goes to the findings *)
AppendItem_default(st, item) ==
    IF st.current_section = "recommendations"
    THEN [st EXCEPT !.recommendations = Append(@, item)]
    ELSE IF st.current_section = "priority"
    THEN [st EXCEPT !.priority_actions = Append(@, item)]
    ELSE [st EXCEPT !.findings = Append(@, item)]

(* The section a list item goes to; nothing happens in the other sections. *)
AppendItem(st, item) ==
    IF st.current_section = "findings"
    THEN [st EXCEPT !.findings = Append(@, item)]
    ELSE IF st.current_section = "recommendations"
    THEN [st EXCEPT !.recommendations = Append(@, item)]
    ELSE IF st.current_section = "priority"
    THEN [st EXCEPT !.priority_actions = Append(@, item)]
    ELSE st

(* Mutant: the bullet test made before the keyword tests *)
ScanOne_bullet_first(st, raw) ==
    LET l == strip(raw)
    IN  IF l = <<>> THEN st
        ELSE IF IsBullet(l)
        THEN AppendItem(st, Literal(strip(lstrip(l, BulletMarkers \cup {" "}))))
        ELSE IF InLower("summary", l) \/ InLower("executive", l)
        THEN [st EXCEPT !.current_section = "summary"]
        ELSE IF InLower("finding", l)
        THEN [st EXCEPT !.current_section = "findings"]
        ELSE IF InLower("recommendation", l)
        THEN [st EXCEPT !.current_section = "recommendations"]
        ELSE IF InLower("priority", l) \/ InLower("action", l)
        THEN [st EXCEPT !.current_section = "priority"]
        ELSE IF st.current_section = "summary" /\ st.summary = EmptyStr
        THEN [st EXCEPT !.summary = Literal(l)]
        ELSE st

(* Mutant: the summary taken from every text line of the summary section *)
ScanOne_overwrite(st, raw) ==
    LET l == strip(raw)
    IN  IF l = <<>> THEN st
        ELSE IF InLower("summary", l) \/ InLower("executive", l)
        THEN [st EXCEPT !.current_section = "summary"]
        ELSE IF InLower("finding", l)
        THEN [st EXCEPT !.current_section = "findings"]
        ELSE IF InLower("recommendation", l)
        THEN [st EXCEPT !.current_section = "recommendations"]
        ELSE IF InLower("priority", l) \/ InLower("action", l)
        THEN [st EXCEPT !.current_section = "priority"]
        ELSE IF IsBullet(l)
        THEN AppendItem(st, Literal(strip(lstrip(l, BulletMarkers \cup {" "}))))
        ELSE IF st.current_section = "summary"
        THEN [st EXCEPT !.summary = Literal(l)]
        ELSE st

(* One pass of the loop body over a raw line. *)
ScanOne(st, raw) ==
    LET l == strip(raw)
    IN  IF l = <<>> THEN st
        ELSE IF InLower("summary", l) \/ InLower("executive", l)
        THEN [st EXCEPT !.current_section = "summary"]
        ELSE IF InLower("finding", l)
        THEN [st EXCEPT !.current_section = "findings"]
        ELSE IF InLower("recommendation", l)
        THEN [st EXCEPT !.current_section = "recommendations"]
        ELSE IF InLower("priority", l) \/ InLower("action", l)
        THEN [st EXCEPT !.current_section = "priority"]
        ELSE IF IsBullet(l)
        THEN AppendItem(st, Literal(strip(lstrip(l, BulletMarkers \cup {" "}))))
        ELSE IF st.current_section = "summary" /\ st.summary = EmptyStr
        THEN [st EXCEPT !.summary = Literal(l)]
        ELSE st

(* Mutant: the fallback only when both are missing *)
ParseFailed_both(st) == st.summary = EmptyStr /\ st.findings = <<>>

(* Mutant: the fallback only when the summary is missing *)
ParseFailed_summary(st) == st.summary = EmptyStr

(* The fallback test: not summary or not findings *)
ParseFailed(st) == st.summary = EmptyStr \/ st.findings = <<>>

(* What _parse_ai_response returns once the loop is over. *)
ParsedReport(st, a) ==
    IF ParseFailed(st)
    THEN _generate_mock_report(a)
    ELSE CostSavingsReport(
            StrOr(st.summary, Text("Analysis of resources", <<a.total_records>>, <<>>)),
            ListOr(Slice(st.findings, MAX_FINDINGS),
                   <<Text("Review cost data for optimization opportunities", <<>>, <<>>)>>),
            ListOr(Slice(st.recommendations, MAX_RECOMMENDATIONS),
                   <<Text("Implement cost monitoring", <<>>, <<>>)>>),
            a.potential_monthly_savings,
            ListOr(Slice(st.priority_actions, MAX_PRIORITY_ACTIONS),
                   <<Text("Review findings", <<>>, <<>>)>>),
            a)

----------------------------------------------------------------------------
(* Values at rest *)

NoFlags == [called |-> FALSE, underutilized |-> RaiseBool, idle |-> RaiseBool,
            anomaly |-> FALSE]
NoSummary == [called |-> FALSE, result |-> analyze_records(<<>>)]
NoReport == CostSavingsReport(EmptyStr, <<>>, <<>>, 0, <<>>, analyze_records(<<>>))
Respond(status, detail, path, report) ==
    [status |-> status, detail |-> detail, path |-> path, report |-> report]

NoResponse == [status |-> 0, detail |-> "", path |-> "", report |-> NoReport]

Locals == ParserLocals(current_section, summary, findings, recommendations,
                       priority_actions)

AnalysisAtRest ==
    /\ records = <<>>
    /\ avg_cost = Rational(0, 1)
    /\ flags = NoFlags
    /\ summary_out = NoSummary

ParserAtRest ==
    /\ current_section = "None"
    /\ summary = EmptyStr
    /\ findings = <<>>
    /\ recommendations = <<>>
    /\ priority_actions = <<>>
    /\ saw_bullet = FALSE

ReportAtRest ==
    /\ cost_records_store = <<>>
    /\ use_mock_env = TRUE
    /\ pc = "idle"
    /\ analysis_summary = analyze_records(<<>>)
    /\ response = NoResponse

----------------------------------------------------------------------------
(* The classifier on one record: every status, usage values on both sides   *)
(* of each threshold, written as text, as text with a percent sign, as a    *)
(* number, and not a number at all.                                         *)

UsageValues ==
    {Str(<<"2">>), Str(<<"4", "%">>), Str(<<"5">>), Str(<<"1", "0", "%">>),
     Str(<<"1", "9">>), Str(<<"2", "0", "%">>), Str(<<"5", "0", "%">>),
     Str(<<"a", "b", "c">>), Str(<<"%">>), Float(3), Float(5), Float(20)}

ClassifyCosts == {0, 10, 19, 20, 25, 100}

ClassifyRecords ==
    {CostRecord("svc", st, cpu, mem, c) :
        st \in ResourceStatus, cpu \in UsageValues, mem \in UsageValues,
        c \in ClassifyCosts}

ClassifyAverages ==
    {Rational(n, d) : n \in {0, 10, 30, 130}, d \in {1, 3}}

InitClassify ==
    /\ records \in {<<r>> : r \in ClassifyRecords}
    /\ avg_cost \in ClassifyAverages
    /\ flags = NoFlags
    /\ summary_out = NoSummary
    /\ ParserAtRest
    /\ ReportAtRest

(* The three calls of the analysis loop, on the record and the average. *)
Classify ==
    /\ ~flags.called
    /\ flags' = [called |-> TRUE,
                 underutilized |-> is_underutilized(records[1]),
                 idle |-> is_idle(records[1]),
                 anomaly |-> is_high_cost_anomaly(records[1], avg_cost)]
    /\ UNCHANGED <<records, avg_cost, summary_out, parserVars, reportVars>>

NextClassify == Classify

SpecClassify == InitClassify /\ [][NextClassify]_vars

----------------------------------------------------------------------------
(* analyze_records on a cohort built record by record *)

CohortCosts == {0, 10, 20, 100}

CohortRecords ==
    {CostRecord("svc", "active", Str(<<"2">>), Str(<<"2">>), c) : c \in CohortCosts}
    \cup {CostRecord("svc", "active", Str(<<"1", "0", "%">>), Float(10), c) :
            c \in CohortCosts}
    \cup {CostRecord("svc", "active", Str(<<"9", "0">>), Str(<<"9", "0">>), c) :
            c \in CohortCosts}
    \cup {CostRecord("svc", "idle", Str(<<"5", "0", "%">>), Str(<<"5", "0", "%">>), c) :
            c \in CohortCosts}
    \cup {CostRecord("svc", "stopped", Str(<<"a", "b", "c">>), Str(<<"2">>), 10),
          CostRecord("svc", "idle", Str(<<"a", "b", "c">>), Str(<<"%">>), 10)}

InitAnalysis ==
    /\ AnalysisAtRest
    /\ ParserAtRest
    /\ ReportAtRest

AddRecord(r) ==
    /\ ~summary_out.called
    /\ ~flags.called
    /\ Len(records) < MaxRecords
    /\ records' = Append(records, r)
    /\ UNCHANGED <<avg_cost, flags, summary_out, parserVars, reportVars>>

Analyze ==
    /\ ~summary_out.called
    /\ summary_out' = [called |-> TRUE, result |-> analyze_records(records)]
    /\ UNCHANGED <<records, avg_cost, flags, parserVars, reportVars>>

(* The classifier called on one record of the analyzed cohort, the last     *)
(* one, with the cohort's average, each call on its own.                     *)
ClassifyRecord ==
    /\ summary_out.called
    /\ ~flags.called
    /\ response = NoResponse
    /\ records # <<>>
    /\ LET record == records[Len(records)]
           avg == Average(SumDailyCost(records), Len(records),
                          CohortUnit(records)).val
       IN  flags' = [called |-> TRUE,
                     underutilized |-> is_underutilized(record),
                     idle |-> is_idle(record),
                     anomaly |-> is_high_cost_anomaly(record, avg)]
    /\ UNCHANGED <<records, avg_cost, summary_out, parserVars, reportVars>>

(* The mock service asked for the report of the summary just computed. *)
MockReport ==
    /\ summary_out.called
    /\ ~summary_out.result.raised
    /\ ~flags.called
    /\ response = NoResponse
    /\ response' = Respond(200, "", "mock",
                           _generate_mock_report(summary_out.result))
    /\ UNCHANGED <<analysisVars, parserVars, cost_records_store, use_mock_env,
                   pc, analysis_summary>>

NextAnalysis ==
    \/ \E r \in CohortRecords : AddRecord(r)
    \/ Analyze
    \/ ClassifyRecord
    \/ MockReport

SpecAnalysis == InitAnalysis /\ [][NextAnalysis]_vars

(* Cohorts whose costs are a few least positive doubles *)
SubnormalCosts == {0, 1, 2, 3}

SubnormalRecords ==
    {SubnormalCostRecord("svc", "active", Str(<<"9", "0">>), Str(<<"9", "0">>), c) :
        c \in SubnormalCosts}
    \cup {SubnormalCostRecord("svc", "active", Str(<<"1", "0", "%">>), Float(10), c) :
            c \in SubnormalCosts}
    \cup {SubnormalCostRecord("svc", "idle", Str(<<"5", "0", "%">>), Str(<<"5", "0", "%">>), c) :
            c \in SubnormalCosts}

NextSubnormal ==
    \/ \E r \in SubnormalRecords : AddRecord(r)
    \/ Analyze

SpecSubnormal == InitAnalysis /\ [][NextSubnormal]_vars

----------------------------------------------------------------------------
(* app/main.py: GET /api/v1/generate-report, with the provider's answer      *)
(* scanned line by line.                                                     *)

(* The stores an upload has left: none, a cohort with nothing to flag, a     *)
(* cohort of three with every category.                                      *)
SampleStores ==
    {<<>>,
     <<CostRecord("web", "active", Str(<<"5", "0", "%">>), Str(<<"5", "0", "%">>), 10)>>,
     <<CostRecord("a", "active", Str(<<"2">>), Str(<<"2">>), 10),
       CostRecord("b", "idle", Str(<<"5", "0", "%">>), Str(<<"5", "0", "%">>), 20),
       CostRecord("c", "active", Str(<<"9", "0">>), Str(<<"9", "0">>), 100)>>}

(* What the provider call can end in, other than a text: the call raises     *)
(* (no connection, credentials refused), the response has no choices, its    *)
(* message has no content.                                                   *)
ProviderFailures ==
    {"APIConnectionError", "AuthenticationError", "IndexError", "AttributeError"}

(* The lines a narrative is made of; its k-th item of a section reads        *)
(* "item k", so that the order of the items shows.                           *)
NarrativeLines(k) ==
    {<<>>,
     <<Blank, Blank>>,
     <<Word("Executive"), Blank, Word("Summary")>>,
     <<Word("Key"), Blank, Word("Findings"), Word(":")>>,
     <<Word("*"), Word("*"), Word("Recommendations"), Word("*"), Word("*")>>,
     <<Word("Priority"), Blank, Word("Actions")>>,
     <<Word("Actions"), Blank, Word("on"), Blank, Word("Findings")>>,
     <<Word("-"), Blank, Word("SUMMARY"), Blank, Word("of"), Blank, Word("Findings")>>,
     <<Word("Costs"), Blank, Word("are"), Blank, Word("high"), Word(".")>>,
     <<Word("Savings"), Blank, Word("follow"), Word(".")>>,
     <<Blank, Word("Transactions"), Blank, Word("cost"), Blank, Word("more")>>,
     <<Word("-"), Blank, ItemWord(k)>>,
     <<Blank, Blank, Word("*"), Blank, ItemWord(k), Blank>>,
     <<Word("U+2022"), ItemWord(k)>>}

(* The number the next item of the active section carries. *)
NextItem ==
    IF current_section = "findings" THEN Len(findings) + 1
    ELSE IF current_section = "recommendations" THEN Len(recommendations) + 1
    ELSE IF current_section = "priority" THEN Len(priority_actions) + 1
    ELSE 1

ItemsCaptured == Len(findings) + Len(recommendations) + Len(priority_actions)

Init ==
    /\ AnalysisAtRest
    /\ ParserAtRest
    /\ cost_records_store \in SampleStores
    /\ use_mock_env \in BOOLEAN
    /\ pc = "idle"
    /\ analysis_summary = analyze_records(<<>>)
    /\ response = NoResponse

(* if not cost_records_store: 404 *)
GenerateReportNoData ==
    /\ pc = "idle"
    /\ cost_records_store = <<>>
    /\ response' = Respond(404, "No cost data available", "", NoReport)
    /\ UNCHANGED <<analysisVars, parserVars, cost_records_store, use_mock_env,
                   pc, analysis_summary>>

(* The request with the mock service: use_mock asked for, or no key at import. *)
GenerateReportMock(use_mock) ==
    /\ pc = "idle"
    /\ cost_records_store # <<>>
    /\ use_mock \/ use_mock_env
    /\ analysis_summary' = analyze_records(cost_records_store)
    /\ response' = Respond(200, "", "mock",
                           _generate_mock_report(analysis_summary'))
    /\ current_section' = "None"
    /\ summary' = EmptyStr
    /\ findings' = <<>>
    /\ recommendations' = <<>>
    /\ priority_actions' = <<>>
    /\ saw_bullet' = FALSE
    /\ UNCHANGED <<analysisVars, cost_records_store, use_mock_env, pc>>

(* The request with the OpenAI service: the provider is called. *)
GenerateReportOpenAI ==
    /\ pc = "idle"
    /\ cost_records_store # <<>>
    /\ ~use_mock_env
    /\ analysis_summary' = analyze_records(cost_records_store)
    /\ response' = NoResponse
    /\ pc' = "provider"
    /\ current_section' = "None"
    /\ summary' = EmptyStr
    /\ findings' = <<>>
    /\ recommendations' = <<>>
    /\ priority_actions' = <<>>
    /\ saw_bullet' = FALSE
    /\ UNCHANGED <<analysisVars, cost_records_store, use_mock_env>>

(* _generate_openai_report raises; the handler's except turns it into a 500. *)
ProviderFails(e) ==
    /\ pc = "provider"
    /\ pc' = "idle"
    /\ response' = Respond(500, e, "openai", NoReport)
    /\ UNCHANGED <<analysisVars, parserVars, cost_records_store, use_mock_env,
                   analysis_summary>>

(* The provider answers with a text: _parse_ai_response starts. *)
ProviderAnswers ==
    /\ pc = "provider"
    /\ pc' = "scan"
    /\ UNCHANGED <<analysisVars, parserVars, cost_records_store, use_mock_env,
                   analysis_summary, response>>

(* for line in lines: one line of the narrative *)
ScanLine(raw) ==
    /\ pc = "scan"
    /\ IsBullet(strip(raw)) => ItemsCaptured < MaxItems
    /\ LET st == ScanOne(Locals, raw)
       IN  /\ current_section' = st.current_section
           /\ summary' = st.summary
           /\ findings' = st.findings
           /\ recommendations' = st.recommendations
           /\ priority_actions' = st.priority_actions
    /\ saw_bullet' = (saw_bullet \/ IsBullet(strip(raw)))
    /\ UNCHANGED <<analysisVars, reportVars>>

(* The loop is over: the fallback test and the report. *)
EndOfNarrative ==
    /\ pc = "scan"
    /\ pc' = "idle"
    /\ response' = Respond(200, "", "openai", ParsedReport(Locals, analysis_summary))
    /\ UNCHANGED <<analysisVars, parserVars, cost_records_store, use_mock_env,
                   analysis_summary>>

Next ==
    \/ GenerateReportNoData
    \/ \E use_mock \in BOOLEAN : GenerateReportMock(use_mock)
    \/ GenerateReportOpenAI
    \/ \E e \in ProviderFailures : ProviderFails(e)
    \/ ProviderAnswers
    \/ \E raw \in NarrativeLines(NextItem) : ScanLine(raw)
    \/ EndOfNarrative

Spec == Init /\ [][Next]_vars

----------------------------------------------------------------------------
(* app/main.py: POST /api/v1/upload-csv *)

(* A row of the file as csv.DictReader hands it over: every field is text. *)
Row(service, date, cost, cpu, mem, status) ==
    [service |-> service, date |-> date, daily_cost |-> cost,
     usage_cpu_avg |-> cpu, usage_mem_avg |-> mem, status |-> status]

(* datetime.strptime(row['date'], '%Y-%m-%d') on the dates of the model *)
strptime(d) == IF d = "2024-01-15" THEN Ok(d) ELSE [raised |-> TRUE, val |-> ""]

(* The body of the per-row try: the date, float(daily_cost), and the        *)
(* CostRecord with its usage validator and its status enumeration.  The     *)
(* usages of the record are the floats the validator returns.               *)
ParseRow(row) ==
    LET date_obj == strptime(row.date)
        daily_cost == float(row.daily_cost)
        cpu == parse_usage_percentage(Str(row.usage_cpu_avg))
        mem == parse_usage_percentage(Str(row.usage_mem_avg))
    IN  IF \/ date_obj.raised
           \/ daily_cost.raised
           \/ cpu.raised
           \/ mem.raised
           \/ lower(row.status) \notin ResourceStatus
        THEN [raised |-> TRUE,
              val |-> CostRecord("", "", Float(0), Float(0), 0)]
        ELSE Ok(CostRecord(row.service, lower(row.status),
                           Float(cpu.val), Float(mem.val), daily_cost.val))

(* The loop over the rows: a row that raises is skipped. *)
RECURSIVE ParseRows(_)
ParseRows(rows) ==
    IF rows = <<>> THEN <<>>
    ELSE LET record == ParseRow(rows[1])
         IN  (IF record.raised THEN <<>> ELSE <<record.val>>)
             \o ParseRows(Tail(rows))

(* The store once the handler is over: assigned only past the 'if not       *)
(* records' test.                                                           *)
StoreAfterUpload(store, parsed) == IF parsed = <<>> THEN store ELSE parsed

UploadRows ==
    {Row("a", "2024-01-15", <<"1", "0">>, <<"2">>, <<"2", "%">>, "active"),
     Row("b", "2024-01-15", <<"2", "0">>, <<"5", "0", "%">>, <<"5", "0">>, "idle"),
     Row("c", "2024-01-15", <<"1", "0", "0">>, <<"9", "0">>, <<"9", "0">>, "active"),
     Row("d", "15/01/2024", <<"1", "0">>, <<"2">>, <<"2">>, "active"),
     Row("e", "2024-01-15", <<"1", "0">>, <<"a", "b", "c">>, <<"2">>, "active"),
     Row("f", "2024-01-15", <<"1", "0">>, <<"2">>, <<"2">>, "running"),
     Row("g", "2024-01-15", <<"a", "b", "c">>, <<"2">>, <<"2">>, "idle")}

RECURSIVE RowsOfLength(_)
RowsOfLength(n) ==
    IF n = 0 THEN {<<>>}
    ELSE {Append(rows, row) : rows \in RowsOfLength(n - 1), row \in UploadRows}

UploadFiles == UNION {RowsOfLength(n) : n \in 0..MaxRecords}

InitUpload ==
    /\ AnalysisAtRest
    /\ ParserAtRest
    /\ ReportAtRest

(* The file name does not end in .csv: refused before the try. *)
UploadNotCsv ==
    /\ pc = "idle"
    /\ response' = Respond(400, "File must be a CSV file", "upload", NoReport)
    /\ UNCHANGED <<analysisVars, parserVars, cost_records_store, use_mock_env,
                   pc, analysis_summary>>

(* A .csv file of rows.  The HTTPException raised for a file with no valid  *)
(* row is raised inside the try, and 'except Exception' answers it as it    *)
(* answers every other exception: with status 500, the text of the          *)
(* exception in the detail.                                                 *)
UploadCsv(rows) ==
    /\ pc = "idle"
    /\ LET parsed == ParseRows(rows)
           a == analyze_records(parsed)
       IN  /\ cost_records_store' = StoreAfterUpload(cost_records_store, parsed)
           /\ IF parsed = <<>>
              THEN /\ response' = Respond(500,
                         "Error processing CSV file: 400: No valid records found in CSV file",
                         "upload", NoReport)
                   /\ UNCHANGED analysis_summary
              ELSE IF a.raised
              THEN /\ response' = Respond(500, "Error processing CSV file",
                                          "upload", NoReport)
                   /\ UNCHANGED analysis_summary
              ELSE /\ response' = Respond(200, "Successfully processed records",
                                          "upload", NoReport)
                   /\ analysis_summary' = a
    /\ UNCHANGED <<analysisVars, parserVars, use_mock_env, pc>>

NextUpload ==
    \/ UploadNotCsv
    \/ \E rows \in UploadFiles : UploadCsv(rows)

SpecUpload == InitUpload /\ [][NextUpload]_vars

----------------------------------------------------------------------------
(* Claims about the classifier and the savings estimate *)

Parses(u) == ~parse_usage_percentage(u).raised
Normalized(u) == parse_usage_percentage(u).val
BothBelow(r, t) ==
    /\ Parses(r.usage_cpu_avg) /\ Parses(r.usage_mem_avg)
    /\ Normalized(r.usage_cpu_avg) < t /\ Normalized(r.usage_mem_avg) < t
BothFrom(r, t) ==
    /\ Parses(r.usage_cpu_avg) /\ Parses(r.usage_mem_avg)
    /\ Normalized(r.usage_cpu_avg) >= t /\ Normalized(r.usage_mem_avg) >= t
Returned(call, v) == ~call.raised /\ call.val = v

(* The credit of one record by the priority idle > underutilized > anomaly, *)
(* in tenths of a dollar: 80%, 30%, 20% of 30 days' cost.                   *)
PriorityCredit(r, avg) ==
    IF is_idle(r).val THEN 8 * (r.daily_cost * 30)
    ELSE IF is_underutilized(r).val THEN 3 * (r.daily_cost * 30)
    ELSE IF is_high_cost_anomaly(r, avg) THEN 2 * (r.daily_cost * 30)
    ELSE 0

RECURSIVE SumPriorityCredit(_, _)
SumPriorityCredit(rs, avg) ==
    IF rs = <<>> THEN 0
    ELSE PriorityCredit(rs[1], avg) + SumPriorityCredit(Tail(rs), avg)

Analyzed == summary_out.called /\ ~summary_out.result.raised

(* C1: the potential_monthly_savings of analyze_records is the sum, over the *)
(* cohort's records, of exactly one credit per record: 80% of the monthly    *)
(* cost estimate if the record is idle, else 30% if it is underutilized,     *)
(* else 20% if it is a high-cost anomaly, else nothing.                      *)
C1_SavingsPriority ==
    Analyzed =>
        summary_out.result.potential_monthly_savings =
            SumPriorityCredit(records,
                              Rational(SumDailyCost(records),
                                       IF records = <<>> THEN 1 ELSE Len(records)))

(* A cohort with a record that costs something and is both idle and          *)
(* underutilized has been analyzed, next to an anomaly.                      *)
C1_Witness ==
    /\ Analyzed
    /\ \E i \in DOMAIN summary_out.result.underutilized_resources :
          /\ summary_out.result.underutilized_resources[i].is_idle
          /\ summary_out.result.underutilized_resources[i].daily_cost > 0
    /\ summary_out.result.high_cost_anomaly_count > 0

(* C8: is_idle returns true exactly when the status is idle or both          *)
(* normalized usages are below 5.                                            *)
C8_IsIdle ==
    flags.called =>
        LET r == records[1]
        IN  /\ Returned(flags.idle, TRUE)
                <=> (r.status = "idle" \/ BothBelow(r, 5))
            /\ r.status = "idle" => Returned(flags.idle, TRUE)
            /\ (r.status # "idle" /\ Parses(r.usage_cpu_avg) /\ Parses(r.usage_mem_avg))
                => Returned(flags.idle, BothBelow(r, 5))

(* A record of status idle with both usages at 50 was found idle. *)
C8_Witness ==
    /\ flags.called
    /\ records[1].status = "idle"
    /\ BothFrom(records[1], 50)
    /\ Returned(flags.idle, TRUE)

(* C9: is_underutilized returns true exactly when the status is active and   *)
(* both normalized usages are strictly below 20; an active record with both  *)
(* usages in [5, 20) is underutilized and not idle, one with both below 5 is *)
(* both.                                                                     *)
C9_IsUnderutilized ==
    flags.called =>
        LET r == records[1]
        IN  /\ Returned(flags.underutilized, TRUE)
                <=> (r.status = "active" /\ BothBelow(r, 20))
            /\ (r.status = "active" /\ BothBelow(r, 20) /\ BothFrom(r, 5))
                => Returned(flags.underutilized, TRUE) /\ Returned(flags.idle, FALSE)
            /\ (r.status = "active" /\ BothBelow(r, 5))
                => Returned(flags.underutilized, TRUE) /\ Returned(flags.idle, TRUE)

(* An active record with both usages at 10 was found underutilized and not   *)
(* idle.                                                                     *)
C9_Witness ==
    /\ flags.called
    /\ records[1].status = "active"
    /\ BothFrom(records[1], 10) /\ BothBelow(records[1], 11)
    /\ Returned(flags.underutilized, TRUE)
    /\ Returned(flags.idle, FALSE)

(* C10: is_high_cost_anomaly returns true exactly when daily_cost is         *)
(* strictly greater than twice the cohort average; with an average of 10, a  *)
(* cost of 25 is an anomaly and costs of 19 and of exactly 20 are not.       *)
C10_IsHighCostAnomaly ==
    flags.called =>
        LET r == records[1]
        IN  /\ flags.anomaly <=> (r.daily_cost * avg_cost.den > 2 * avg_cost.num)
            /\ avg_cost = Rational(10, 1) =>
                  /\ r.daily_cost = 25 => flags.anomaly
                  /\ r.daily_cost \in {19, 20} => ~flags.anomaly

(* A record costing exactly twice the average of 10 was not an anomaly. *)
C10_Witness ==
    /\ flags.called
    /\ avg_cost = Rational(10, 1)
    /\ records[1].daily_cost = 20
    /\ ~flags.anomaly

----------------------------------------------------------------------------
(* Claims about the two report paths *)

(* The request went through _parse_ai_response and has been answered; the   *)
(* parser's variables hold what the scan captured.                          *)
Parsed == pc = "idle" /\ response.path = "openai" /\ response.status = 200
Captured == summary # EmptyStr /\ findings # <<>>
Deterministic == _generate_mock_report(analyze_records(cost_records_store))

(* C2: when the scan captured no summary text or no findings item,           *)
(* _parse_ai_response returns exactly the report of _generate_mock_report    *)
(* for the summary, whatever else it captured.                               *)
C2_FallbackDiscardsParsed ==
    (Parsed /\ (summary = EmptyStr \/ findings = <<>>))
        => response.report = Deterministic

(* A summary, recommendations and priority actions were captured, but no     *)
(* finding: the deterministic report was returned.                           *)
C2_Witness ==
    /\ Parsed
    /\ summary # EmptyStr /\ findings = <<>>
    /\ recommendations # <<>> /\ priority_actions # <<>>
    /\ response.report = Deterministic

(* C3: a failure of the provider call is never answered with an error: the   *)
(* request is answered with the deterministic report for the summary.        *)
C3_ProviderFailureFallsBack ==
    [][(\E e \in ProviderFailures : ProviderFails(e))
          => /\ response'.status = 200
             /\ response'.report = Deterministic]_vars

ZeroCategories ==
    /\ analysis_summary.idle_count = 0
    /\ analysis_summary.underutilized_count = 0
    /\ analysis_summary.high_cost_anomaly_count = 0

(* The response carries the deterministic report: the mock service answered, *)
(* or the parser fell back.                                                  *)
DeterministicAnswer ==
    /\ pc = "idle" /\ response.status = 200
    /\ response.path = "mock" \/ (response.path = "openai" /\ ~Captured)

StandingRecommendations ==
    <<Text("Implement automated resource scheduling for non-production environments",
           <<>>, <<>>),
      Text("Set up cost alerts and budgets to prevent future cost anomalies",
           <<>>, <<>>)>>

(* C4, as stated: the deterministic report of a summary with no idle, no     *)
(* underutilized and no anomalous resource has a non-empty recommendations   *)
(* list and a non-empty priority_actions list.                               *)
C4_ZeroCategoriesPopulated ==
    (DeterministicAnswer /\ ZeroCategories)
        => /\ response.report.recommendations # <<>>
           /\ response.report.priority_actions # <<>>

(* C4, amended: that report has exactly the two standing recommendations,    *)
(* and its priority_actions and findings lists are empty.                    *)
C4_ZeroCategoriesReport ==
    (DeterministicAnswer /\ ZeroCategories)
        => /\ response.report.recommendations = StandingRecommendations
           /\ response.report.priority_actions = <<>>
           /\ response.report.findings = <<>>

(* The mock service answered for a store of one record with nothing to flag. *)
C4_Witness ==
    /\ DeterministicAnswer /\ ZeroCategories
    /\ response.path = "mock"
    /\ analysis_summary.total_records = 1
    /\ Len(response.report.recommendations) = 2
    /\ response.report.priority_actions = <<>>

(* C5: a narrative none of whose lines is a bullet line (a line that, once   *)
(* stripped as the scan strips it, begins with a hyphen, the bullet          *)
(* character or an asterisk) gets the report of _generate_mock_report, equal *)
(* in every field.                                                           *)
C5_NoBulletsIsDeterministic ==
    (Parsed /\ ~saw_bullet) => response.report = Deterministic

(* A narrative without a bullet line, of which a summary text was captured   *)
(* under a header, was answered with the deterministic report.               *)
C5_Witness ==
    /\ Parsed /\ ~saw_bullet
    /\ summary # EmptyStr
    /\ current_section = "priority"
    /\ response.report = Deterministic

(* C6: when the parsed output is accepted, the report's summary and findings *)
(* are non-empty, and a recommendations or priority_actions section of which *)
(* no item was captured holds exactly one fixed placeholder item.            *)
C6_AcceptedIsPopulated ==
    (Parsed /\ Captured)
        => /\ response.report.summary # EmptyStr
           /\ response.report.findings # <<>>
           /\ response.report.recommendations # <<>>
           /\ response.report.priority_actions # <<>>
           /\ recommendations = <<>>
                => response.report.recommendations
                     = <<Text("Implement cost monitoring", <<>>, <<>>)>>
           /\ priority_actions = <<>>
                => response.report.priority_actions
                     = <<Text("Review findings", <<>>, <<>>)>>

(* Accepted output with neither a recommendation nor a priority action. *)
C6_Witness ==
    /\ Parsed /\ Captured
    /\ recommendations = <<>> /\ priority_actions = <<>>
    /\ Len(response.report.recommendations) = 1
    /\ Len(response.report.priority_actions) = 1

IsPrefix(p, q) == Len(p) <= Len(q) /\ \A i \in DOMAIN p : p[i] = q[i]
Min(a, b) == IF a < b THEN a ELSE b
InNarrativeOrder(items) ==
    \A i \in DOMAIN items : items[i] = Literal(<<ItemWord(i)>>)

----------------------------------------------------------------------------
(* The summary of a cohort *)

Result == summary_out.result
CohortAverage ==
    Rational(SumDailyCost(records), IF records = <<>> THEN 1 ELSE Len(records))

(* C11: analyze_records on the empty cohort returns, without raising and    *)
(* without dividing by the cohort's length, the summary whose totals,       *)
(* counts and potential savings are 0 and whose three collections are empty. *)
C11_EmptyCohort ==
    (summary_out.called /\ records = <<>>)
        => /\ ~Result.raised
           /\ Result.total_records = 0
           /\ Result.total_daily_cost = 0
           /\ Result.total_monthly_cost_estimate = 0
           /\ Result.underutilized_count = 0
           /\ Result.idle_count = 0
           /\ Result.high_cost_anomaly_count = 0
           /\ Result.potential_monthly_savings = 0
           /\ Result.underutilized_resources = <<>>
           /\ Result.idle_resources = <<>>
           /\ Result.high_cost_anomalies = <<>>

(* The empty cohort has been analyzed. *)
C11_Witness == summary_out.called /\ records = <<>> /\ avg_cost = Rational(0, 1)

(* C12: in every summary of a cohort whose daily costs are not negative the *)
(* monthly estimate is the daily total times 30, each count is the length   *)
(* of its collection and the potential savings are not negative.            *)
C12_SummaryArithmetic ==
    (Analyzed /\ \A i \in DOMAIN records : records[i].daily_cost >= 0)
        => /\ Result.total_monthly_cost_estimate = Result.total_daily_cost * 30
           /\ Result.underutilized_count = Len(Result.underutilized_resources)
           /\ Result.idle_count = Len(Result.idle_resources)
           /\ Result.high_cost_anomaly_count = Len(Result.high_cost_anomalies)
           /\ Result.potential_monthly_savings >= 0

(* A summary whose three collections have three different lengths. *)
C12_Witness ==
    /\ Analyzed
    /\ Result.total_daily_cost > 0
    /\ Len(Result.idle_resources) = 2
    /\ Len(Result.underutilized_resources) = 1
    /\ Len(Result.high_cost_anomalies) = 0

(* The cost record a classified record was made from. *)
RecordOf(resource) ==
    CostRecord(resource.service, resource.status, resource.usage_cpu_avg,
               resource.usage_mem_avg, resource.daily_cost)
RecordsOf(resources) ==
    IF resources = <<>> THEN <<>>
    ELSE [i \in DOMAIN resources |-> RecordOf(resources[i])]

(* C13: each of the three collections of a summary is the subsequence of    *)
(* the cohort, in cohort order, of the records whose flag is true; a record *)
(* with several flags is in each of the collections it matches.             *)
C13_Subsequences ==
    Analyzed
        => /\ RecordsOf(Result.underutilized_resources)
                = SelectSeq(records, LAMBDA r : is_underutilized(r).val)
           /\ RecordsOf(Result.idle_resources)
                = SelectSeq(records, LAMBDA r : is_idle(r).val)
           /\ RecordsOf(Result.high_cost_anomalies)
                = SelectSeq(records,
                            LAMBDA r : is_high_cost_anomaly(r, CohortAverage))
           /\ \A i \in DOMAIN Result.underutilized_resources :
                 Result.underutilized_resources[i].is_underutilized
           /\ \A i \in DOMAIN Result.idle_resources :
                 Result.idle_resources[i].is_idle
           /\ \A i \in DOMAIN Result.high_cost_anomalies :
                 Result.high_cost_anomalies[i].is_high_cost_anomaly

(* The idle collection holds two different records, the second of them also *)
(* in the underutilized and in the anomaly collection.                      *)
C13_Witness ==
    /\ Analyzed
    /\ Len(Result.idle_resources) = 2
    /\ Result.idle_resources[1] # Result.idle_resources[2]
    /\ Result.underutilized_resources = <<Result.idle_resources[2]>>
    /\ Result.high_cost_anomalies = <<Result.idle_resources[2]>>

(* The cohort of C14: A active 2/2 at 10 a day, B idle 50/50 at 20, C       *)
(* active 90/90 at 100.                                                      *)
CohortABC ==
    << CostRecord("svc", "active", Str(<<"2">>), Str(<<"2">>), 10),
       CostRecord("svc", "idle", Str(<<"5", "0", "%">>), Str(<<"5", "0", "%">>), 20),
       CostRecord("svc", "active", Str(<<"9", "0">>), Str(<<"9", "0">>), 100) >>

(* C14: for the cohort A, B, C the summary has A idle and underutilized, B  *)
(* idle only, C anomalous only, and potential savings of 1320 a month.      *)
C14_CohortABC ==
    (summary_out.called /\ records = CohortABC)
        => /\ ~Result.raised
           /\ RecordsOf(Result.underutilized_resources) = <<CohortABC[1]>>
           /\ RecordsOf(Result.idle_resources) = <<CohortABC[1], CohortABC[2]>>
           /\ RecordsOf(Result.high_cost_anomalies) = <<CohortABC[3]>>
           /\ Result.idle_resources[1].is_underutilized
           /\ ~Result.idle_resources[1].is_high_cost_anomaly
           /\ ~Result.idle_resources[2].is_underutilized
           /\ ~Result.idle_resources[2].is_high_cost_anomaly
           /\ ~Result.high_cost_anomalies[1].is_idle
           /\ ~Result.high_cost_anomalies[1].is_underutilized
           /\ Result.potential_monthly_savings = 1320 * RateScale

(* The cohort A, B, C has been analyzed. *)
C14_Witness ==
    /\ summary_out.called /\ records = CohortABC
    /\ Result.total_daily_cost = 130

(* A usage value that cannot be normalized: text that, its percent signs    *)
(* removed, is not a number.                                                 *)
Unparsable(u) ==
    /\ u.type = "str"
    /\ LET digits == SelectSeq(u.chars, LAMBDA c : c # "%")
       IN  digits = <<>> \/ \E i \in DOMAIN digits : digits[i] \notin Digits
Corrupt(r) == Unparsable(r.usage_cpu_avg) \/ Unparsable(r.usage_mem_avg)
Classified == records[Len(records)]

(* C15 as stated: for a record with a usage that cannot be normalized       *)
(* neither is_underutilized nor is_idle returns a value, and neither does   *)
(* analyze_records on a cohort that holds such a record, whatever the       *)
(* record's status.                                                         *)
C15_CorruptAlwaysRaises ==
    /\ (flags.called /\ Corrupt(Classified))
          => flags.underutilized.raised /\ flags.idle.raised
    /\ (summary_out.called /\ \E i \in DOMAIN records : Corrupt(records[i]))
          => Result.raised

(* C15, amended: is_underutilized and analyze_records raise for such a      *)
(* record whatever its status; is_idle raises for every status but idle,    *)
(* and returns true for a record of status idle, whose usages it never      *)
(* reads.                                                                   *)
C15_CorruptRaisesUnlessIdleStatus ==
    /\ (flags.called /\ Corrupt(Classified))
          => /\ flags.underutilized.raised
             /\ Classified.status # "idle" => flags.idle.raised
             /\ Classified.status = "idle" => Returned(flags.idle, TRUE)
    /\ (summary_out.called /\ \E i \in DOMAIN records : Corrupt(records[i]))
          => Result.raised

(* A cohort of two whose last record has status idle and no readable usage  *)
(* has been classified and analyzed.                                        *)
C15_Witness ==
    /\ flags.called /\ summary_out.called
    /\ Len(records) = 2
    /\ ~Corrupt(records[1])
    /\ Corrupt(Classified) /\ Classified.status = "idle"
    /\ Result.raised

----------------------------------------------------------------------------
(* The mock report of a summary *)

Mocked == Analyzed /\ response.status = 200 /\ response.path = "mock"
Texts(items) == IF items = <<>> THEN <<>> ELSE [i \in DOMAIN items |-> items[i].text]

(* One text per category that has something in it, in the order idle,       *)
(* underutilized, anomaly.                                                  *)
PerCategory(idle, underutilized, anomaly, idleText, underutilizedText, anomalyText) ==
    (IF idle THEN <<idleText>> ELSE <<>>)
    \o (IF underutilized THEN <<underutilizedText>> ELSE <<>>)
    \o (IF anomaly THEN <<anomalyText>> ELSE <<>>)

(* C16: the recommendations of a mock report are the recommendations of the *)
(* non-empty categories, in the order idle, underutilized, anomaly, then    *)
(* the two standing recommendations as the last two items: between 2 and 5  *)
(* items.                                                                   *)
C16_MockRecommendations ==
    Mocked =>
        LET recs == response.report.recommendations
        IN  /\ Len(recs) >= 2 /\ Len(recs) <= 5
            /\ SubSeq(recs, Len(recs) - 1, Len(recs)) = StandingRecommendations
            /\ Texts(SubSeq(recs, 1, Len(recs) - 2))
                 = PerCategory(Result.idle_resources # <<>>,
                               Result.underutilized_resources # <<>>,
                               Result.high_cost_anomalies # <<>>,
                               "Immediately stop or terminate idle resources, especially",
                               "Downsize underutilized resources to smaller instance types",
                               "Review high-cost resources for optimization opportunities")

(* A mock report for a summary with underutilized resources and anomalies   *)
(* and nothing idle: four recommendations.                                  *)
C16_Witness ==
    /\ Mocked
    /\ Result.idle_resources = <<>>
    /\ Result.underutilized_resources # <<>>
    /\ Result.high_cost_anomalies # <<>>
    /\ Len(response.report.recommendations) = 4

(* C17: the priority actions of a mock report are one entry per non-empty   *)
(* category and no other, in the order idle, underutilized, anomaly; its    *)
(* findings are one entry per category whose count is above zero, in the    *)
(* same order.                                                              *)
C17_MockPerCategory ==
    Mocked =>
        /\ Texts(response.report.priority_actions)
             = PerCategory(Result.idle_resources # <<>>,
                           Result.underutilized_resources # <<>>,
                           Result.high_cost_anomalies # <<>>,
                           "Terminate idle resources",
                           "Right-size underutilized resources",
                           "Review and optimize high-cost resources")
        /\ Texts(response.report.findings)
             = PerCategory(Result.idle_count > 0,
                           Result.underutilized_count > 0,
                           Result.high_cost_anomaly_count > 0,
                           "Found idle resources that can be stopped or terminated",
                           "Identified underutilized resources that can be downsized",
                           "Detected high-cost anomalies requiring optimization review")

(* A mock report for a summary with idle resources and anomalies and        *)
(* nothing underutilized: two priority actions, two findings.                *)
C17_Witness ==
    /\ Mocked
    /\ Result.idle_resources # <<>>
    /\ Result.underutilized_resources = <<>>
    /\ Result.high_cost_anomalies # <<>>
    /\ Len(response.report.priority_actions) = 2
    /\ Len(response.report.findings) = 2

----------------------------------------------------------------------------
(* The scan, line by line *)

(* The role the scan gives a line: blank, a header (it holds a section      *)
(* keyword), a bullet line (no keyword, and a marker first), or text.       *)
Role(raw) ==
    IF strip(raw) = <<>> THEN "blank"
    ELSE IF IsHeader(strip(raw)) THEN "header"
    ELSE IF IsBullet(strip(raw)) THEN "bullet"
    ELSE "text"

(* The item of the model's bullet lines: the line without marker and blanks *)
NextItemText == Literal(<<ItemWord(NextItem)>>)

ListsUnchanged ==
    /\ findings' = findings
    /\ recommendations' = recommendations
    /\ priority_actions' = priority_actions

AppendedToActive ==
    CASE current_section = "findings" ->
            /\ findings' = Append(findings, NextItemText)
            /\ recommendations' = recommendations
            /\ priority_actions' = priority_actions
      [] current_section = "recommendations" ->
            /\ findings' = findings
            /\ recommendations' = Append(recommendations, NextItemText)
            /\ priority_actions' = priority_actions
      [] current_section = "priority" ->
            /\ findings' = findings
            /\ recommendations' = recommendations
            /\ priority_actions' = Append(priority_actions, NextItemText)
      [] OTHER -> FALSE

(* C18 as stated: a bullet line scanned while a section is active is        *)
(* stripped of its marker and appended to that section's list, never        *)
(* dropped.                                                                 *)
C18_BulletNeverDropped ==
    [][\A raw \in NarrativeLines(NextItem) :
          (ScanLine(raw) /\ Role(raw) = "bullet" /\ current_section # "None")
              => AppendedToActive]_vars

(* C18, amended: a bullet line scanned while findings, recommendations or   *)
(* priority is the active section is stripped of its marker and appended to *)
(* that section's list and to no other; scanned while summary is the active *)
(* section, or before any section, it is dropped.  Either way the section   *)
(* and the summary text stay as they are.                                   *)
C18_BulletAppendedOrDropped ==
    [][\A raw \in NarrativeLines(NextItem) :
          (ScanLine(raw) /\ Role(raw) = "bullet")
              => /\ current_section \in {"findings", "recommendations", "priority"}
                      => AppendedToActive
                 /\ current_section \in {"summary", "None"} => ListsUnchanged
                 /\ current_section' = current_section
                 /\ summary' = summary]_vars

(* The scan has put two bullet lines in the findings and one in the         *)
(* priority actions, and bullet lines were scanned.                         *)
C18_Witness ==
    /\ pc = "scan" /\ saw_bullet
    /\ current_section = "priority"
    /\ Len(findings) = 2
    /\ recommendations = <<>>
    /\ priority_actions = <<Literal(<<ItemWord(1)>>)>>

(* C19: a text line (no keyword, no marker) scanned while summary is the    *)
(* active section and no summary text is captured becomes the summary text, *)
(* so the text is the first such line; no other line sets it, and once      *)
(* captured no later line changes it, a second summary header or not.       *)
C19_SummaryCapturedOnce ==
    [][\A raw \in NarrativeLines(NextItem) :
          ScanLine(raw)
              => IF /\ Role(raw) = "text"
                    /\ current_section = "summary"
                    /\ summary = EmptyStr
                 THEN summary' = Literal(strip(raw))
                 ELSE summary' = summary]_vars

(* The summary text was captured, findings followed, and the scan is in the *)
(* summary section again, after a second summary header.                    *)
C19_Witness ==
    /\ pc = "scan"
    /\ current_section = "summary"
    /\ summary = Literal(<<Word("Costs"), Blank, Word("are"), Blank, Word("high"), Word(".")>>)
    /\ findings # <<>>

----------------------------------------------------------------------------
(* The upload *)

(* C20: an upload none of whose rows parses is answered with status 400     *)
(* and leaves the store as it was; the store changes only in an upload      *)
(* with at least one valid record.                                          *)
C20_NoValidRecordsIs400 ==
    [][/\ \A rows \in UploadFiles :
            (UploadCsv(rows) /\ ParseRows(rows) = <<>>)
                => /\ response'.status = 400
                   /\ cost_records_store' = cost_records_store
       /\ cost_records_store' # cost_records_store
            => \E rows \in UploadFiles :
                  UploadCsv(rows) /\ ParseRows(rows) # <<>>]_vars

----------------------------------------------------------------------------
(* The anomalies of a cohort *)

(* C21: in the summary of a non-empty cohort of n records with costs that   *)
(* are not negative fewer than n/2 records are high-cost anomalies; a       *)
(* cohort of one record and a cohort of equal costs have none.              *)
C21_AnomaliesBelowHalf ==
    (Analyzed /\ records # <<>>
              /\ \A i \in DOMAIN records : records[i].daily_cost >= 0)
        => /\ 2 * Result.high_cost_anomaly_count < Len(records)
           /\ Len(records) = 1 => Result.high_cost_anomaly_count = 0
           /\ (\A i \in DOMAIN records :
                    records[i].daily_cost = records[1].daily_cost)
                => Result.high_cost_anomaly_count = 0

(* The section a line with keywords names: summary or executive before     *)
(* finding, before recommendation, before priority or action.               *)
Has(kw, raw) == InLower(kw, strip(raw))
NamedSection(raw) ==
    CASE Has("summary", raw) \/ Has("executive", raw) -> "summary"
      [] ~(Has("summary", raw) \/ Has("executive", raw))
           /\ Has("finding", raw) -> "findings"
      [] ~(Has("summary", raw) \/ Has("executive", raw))
           /\ ~Has("finding", raw)
           /\ Has("recommendation", raw) -> "recommendations"
      [] OTHER -> "priority"

KeywordFree(texts) == \A i \in DOMAIN texts : ~IsHeader(texts[i].tokens)

(* C22: a line that holds a section keyword only switches the active        *)
(* section, to the first of summary, findings, recommendations, priority    *)
(* that one of its keywords names, and adds nothing, with a bullet marker   *)
(* or without; so no captured summary text and no captured item holds a     *)
(* keyword; and a bullet line scanned before any header is dropped.         *)
C22_KeywordsFirst ==
    [][(pc = "scan" /\ pc' = "scan")
          => /\ \A raw \in NarrativeLines(NextItem) :
                  (Role(raw) = "header" /\ ScanLine(raw))
                      => /\ current_section' = NamedSection(raw)
                         /\ summary' = summary
                         /\ ListsUnchanged
             /\ \A raw \in NarrativeLines(NextItem) :
                  (current_section = "None" /\ IsBullet(strip(raw)) /\ ScanLine(raw))
                      => (summary' = summary /\ ListsUnchanged)
             /\ ~IsHeader(summary'.tokens)
             /\ KeywordFree(findings')
             /\ KeywordFree(recommendations')
             /\ KeywordFree(priority_actions')]_vars

(* Bullet lines were scanned, none of them was captured, and the summary    *)
(* section is active with its text captured.                                *)
C22_Witness ==
    /\ pc = "scan" /\ saw_bullet
    /\ current_section = "summary"
    /\ summary # EmptyStr
    /\ findings = <<>> /\ recommendations = <<>> /\ priority_actions = <<>>

====
